---- MODULE Spec2Model ----
(***************************************************************************)
(* A model of package pgmodel (src/pgmodel.go): the four exported          *)
(* functions Get, GetMany, Save and Delete, the three statement builders   *)
(* and the value marshaler, over records that implement PGModel.           *)
(*                                                                         *)
(* A Go string is a sequence of tokens (an SQL template is the sequence of *)
(* its words, identifiers and punctuation; white space is not modelled).   *)
(* A Go interface{} value is a record [kind, v]: kind is the reflect.Kind  *)
(* of its dynamic type ("nil" for the untyped nil interface, for which     *)
(* reflect.TypeOf returns nil) and v its content as tokens.                *)
(* The caller constructs a record (Init) and calls one exported function   *)
(* on it; the call is one step, after which the state holds the call: its  *)
(* arguments, the ConvertSlice invocations it made, the executor           *)
(* invocations it made, and how it ended.                                  *)
(***************************************************************************)
EXTENDS Integers, Sequences, FiniteSets

VARIABLES op, model, collection, queryKey, queryValue, convLog, calls, outcome, ret

vars == <<op, model, collection, queryKey, queryValue, convLog, calls, outcome, ret>>

\* The largest number of non-key columns (and of non-key values) of a record.
MaxCols == 2

---------------------------------------------------------------------------
\* Dynamically typed values (interface{}).

IntV == [kind |-> "int", v |-> <<"7">>]

StrV == [kind |-> "string", v |-> <<"bob">>]

\* uuid.UUID is [16]byte: reflect.Array, not reflect.Slice.
ArrV == [kind |-> "array", v |-> <<"a3", "a4">>]

SliceV == [kind |-> "slice", v |-> <<"0.1", "0.2">>]

\* The untyped nil interface value (SQL NULL).
NilV == [kind |-> "nil", v |-> <<>>]

PKValues == {ArrV, SliceV, NilV}

NonPKValueSet == {StrV, IntV, SliceV, NilV}

ColumnNames == {"name", "value", "values"}

FloatSlices == {<<>>, <<"0.1", "0.2">>}

\* fmt.Sprintf("%f", v) on the float literals used here.
Sprintf_f(x) == IF x = "0.1" THEN "0.100000" ELSE IF x = "0.2" THEN "0.200000" ELSE "0.000000"

SeqsUpTo(S, n) == UNION {[1..k -> S] : k \in 0..n}

NoRepeat(s) == \A i, j \in DOMAIN s : i # j => s[i] # s[j]

\* The implementations of PGModel: what each interface method returns.
Records ==
    [pk : {"id"}, pkv : PKValues, sn : {"foo"}, tn : {"bars"},
     cc : 1..(MaxCols + 1),
     npkc : {s \in SeqsUpTo(ColumnNames, MaxCols) : NoRepeat(s)},
     npkv : SeqsUpTo(NonPKValueSet, MaxCols),
     Values : FloatSlices]

\* The README's Bar.
Bar ==
    [pk |-> "id", pkv |-> ArrV, sn |-> "foo", tn |-> "bars", cc |-> 3,
     npkc |-> <<"name", "value">>, npkv |-> <<StrV, IntV>>, Values |-> <<>>]

---------------------------------------------------------------------------
\* strings.Join on sequences of token sequences.

RECURSIVE Join(_, _)
Join(parts, sep) ==
    IF Len(parts) = 0 THEN <<>>
    ELSE IF Len(parts) = 1 THEN parts[1]
    ELSE parts[1] \o sep \o Join(Tail(parts), sep)

\* The record's ConvertSlice(c), as the README implements it for Bar.
ConvertSlice(pm, c) ==
    LET convertedValues ==
            IF c = "values"
            THEN [i \in 1..Len(pm.Values) |-> <<Sprintf_f(pm.Values[i])>>]
            ELSE <<>>
    IN [kind |-> "string", v |-> <<"{">> \o Join(convertedValues, <<",">>) \o <<"}">>]

---------------------------------------------------------------------------
\* Value Marshaler.  A result is [panic, val, log]: panic is "none" or the
\* run-time panic that aborts the call, log the ConvertSlice invocations made.

\* A marshaler that also converts arrays (Kind Array as well as Slice).
convertVariable_arraysToo(pm, v, c) ==
    IF v.kind = "nil"
    THEN [panic |-> "nil pointer dereference", val |-> v, log |-> <<>>]
    ELSE IF v.kind \in {"slice", "array"}
    THEN [panic |-> "none", val |-> ConvertSlice(pm, c), log |-> <<c>>]
    ELSE [panic |-> "none", val |-> v, log |-> <<>>]

convertVariable(pm, v, c) ==
    IF v.kind = "nil"
    THEN \* reflect.TypeOf(nil) is nil; rt.Kind() dereferences it.
         [panic |-> "nil pointer dereference", val |-> v, log |-> <<>>]
    ELSE IF v.kind = "slice"
    THEN [panic |-> "none", val |-> ConvertSlice(pm, c), log |-> <<c>>]
    ELSE [panic |-> "none", val |-> v, log |-> <<>>]

RECURSIVE convertVariablesFrom(_, _, _)
convertVariablesFrom(pm, i, cv) ==
    IF i > Len(pm.npkv) THEN cv
    ELSE IF i > Len(pm.npkc)
    THEN [cv EXCEPT !.panic = "index out of range"]
    ELSE LET r == convertVariable(pm, pm.npkv[i], pm.npkc[i])
         IN IF r.panic # "none"
            THEN [panic |-> r.panic, vals |-> cv.vals, log |-> cv.log \o r.log]
            ELSE convertVariablesFrom(pm, i + 1,
                     [panic |-> "none", vals |-> Append(cv.vals, r.val),
                      log |-> cv.log \o r.log])

convertVariables(pm) ==
    convertVariablesFrom(pm, 1, [panic |-> "none", vals |-> <<>>, log |-> <<>>])

---------------------------------------------------------------------------
\* Statement Builder.

createGetQuery(pm, qk, qv) ==
    <<"SELECT", "*", "FROM", pm.sn, ".", pm.tn, "WHERE", qk, "=", "?">>

\* An im array without the mark appended before the loop.
insertMarks_noLeadingMark(cc) == [i \in 1..(IF cc > 1 THEN cc - 1 ELSE 0) |-> <<"?">>]

\* The im array: one "?" and then one per loop iteration.
insertMarks(cc) == [i \in 1..(1 + (IF cc > 1 THEN cc - 1 ELSE 0)) |-> <<"?">>]

\* The sm array: "<npkc[i]> = ?" per loop iteration.
setMarks(pm) == [i \in 1..(IF pm.cc > 1 THEN pm.cc - 1 ELSE 0) |-> <<pm.npkc[i], "=", "?">>]

\* A result is [panic, query].
createSaveQuery(pm) ==
    LET c == [i \in 1..(1 + Len(pm.npkc)) |-> IF i = 1 THEN <<pm.pk>> ELSE <<pm.npkc[i - 1]>>]
    IN IF pm.cc - 1 > Len(pm.npkc)
       THEN [panic |-> "index out of range", query |-> <<>>]
       ELSE [panic |-> "none",
             query |-> <<"INSERT INTO", pm.sn, ".", pm.tn, "(">> \o Join(c, <<",">>) \o <<")">>
                       \o <<"VALUES", "(">> \o Join(insertMarks(pm.cc), <<",">>) \o <<")">>
                       \o <<"ON CONFLICT", "(", pm.pk, ")">>
                       \o <<"DO UPDATE">>
                       \o <<"SET">> \o Join(setMarks(pm), <<",">>)
                       \o <<"WHERE", pm.tn, ".", pm.pk, "=", "?">>]

\* A delete query whose predicate is qualified by the schema name.
createDeleteQuery_schemaQualified(pm) ==
    <<"DELETE FROM", pm.sn, ".", pm.tn, "WHERE", pm.sn, ".", pm.pk, "=", "?">>

createDeleteQuery(pm) ==
    <<"DELETE FROM", pm.sn, ".", pm.tn, "WHERE", pm.tn, ".", pm.pk, "=", "?">>

---------------------------------------------------------------------------
\* Operation Facade.

\* What the external executor (pg.Tx) may answer: (orm.Result, error).
Replies ==
    {[res |-> "result", err |-> "nil"],
     [res |-> "nil", err |-> "pg: no rows in result set"],
     [res |-> "nil", err |-> "ERROR #42601 syntax error"]}

NoReply == [res |-> "none", err |-> "none"]

ModelDest(pm) == [kind |-> "model", model |-> pm, coll |-> <<>>]

CollectionDest(pms) == [kind |-> "collection", model |-> Bar, coll |-> pms]

\* One invocation of the executor: t.QueryOne / t.Query (model, query, params...).
Invocation(mode, dest, query, params, reply) ==
    [mode |-> mode, dest |-> dest, query |-> query, params |-> params, reply |-> reply]

\* A tv slice with the primary key ahead of the update values.
saveParams_pkBeforeUpdates(pkv, npkv) == (<<pkv>> \o npkv) \o <<pkv>> \o npkv

\* The tv slice of Save.
saveParams(pkv, npkv) == (<<pkv>> \o npkv) \o npkv \o <<pkv>>

\* A Save that marshals the values anew for every occurrence in tv.
saveEval_convertPerOccurrence(pm) ==
    LET a == convertVariable(pm, pm.pkv, pm.pk)
        b == convertVariables(pm)
        q == createSaveQuery(pm)
        abort(p, l) == [panic |-> p, log |-> l, reached |-> FALSE, query |-> <<>>, params |-> <<>>]
    IN IF a.panic # "none" THEN abort(a.panic, a.log)
       ELSE IF b.panic # "none" THEN abort(b.panic, a.log \o b.log)
       ELSE IF q.panic # "none" THEN abort(q.panic, a.log \o b.log)
       ELSE [panic |-> "none", log |-> a.log \o b.log \o b.log \o a.log, reached |-> TRUE,
             query |-> q.query, params |-> saveParams(a.val, b.vals)]

\* Save up to the executor invocation: [panic, log, reached, query, params].
saveEval(pm) ==
    LET a == convertVariable(pm, pm.pkv, pm.pk)
        b == convertVariables(pm)
        q == createSaveQuery(pm)
        abort(p, l) == [panic |-> p, log |-> l, reached |-> FALSE, query |-> <<>>, params |-> <<>>]
    IN IF a.panic # "none" THEN abort(a.panic, a.log)
       ELSE IF b.panic # "none" THEN abort(b.panic, a.log \o b.log)
       ELSE IF q.panic # "none" THEN abort(q.panic, a.log \o b.log)
       ELSE [panic |-> "none", log |-> a.log \o b.log, reached |-> TRUE,
             query |-> q.query, params |-> saveParams(a.val, b.vals)]

\* The dynamic types that implement PGModel; "[]PGModel" has no methods.
ImplementsPGModel(t) == t \in {"Bar", "*Bar"}

\* reflect.New(reflect.TypeOf(pm)).Elem().Interface(): the zero value of the
\* static type of the argument, []PGModel.
getManyDynamicType == "[]PGModel"

Init ==
    /\ op = "none"
    /\ model \in Records
    /\ collection = <<>>
    /\ queryKey = "none"
    /\ queryValue = NilV
    /\ convLog = <<>>
    /\ calls = <<>>
    /\ outcome = "none"
    /\ ret = NoReply

QueryKeys == {"id", "name"}

QueryValues == {IntV, NilV}

Collections == {<<>>, <<Bar>>, <<Bar, Bar>>}

\* Get through the multi-row entry point.
getMode_Query == "Query"

\* The executor entry point Get uses.
getMode == "QueryOne"

Get ==
    \E qk \in QueryKeys, qv \in QueryValues, r \in Replies :
      LET pm == model
      IN
        /\ op = "none"
        /\ op' = "Get"
        /\ model' = pm
        /\ collection' = <<>>
        /\ queryKey' = qk
        /\ queryValue' = qv
        /\ convLog' = <<>>
        /\ calls' = <<Invocation(getMode, ModelDest(pm), createGetQuery(pm, qk, qv), <<qv>>, r)>>
        /\ outcome' = "returned"
        /\ ret' = r

GetMany ==
    \E pms \in Collections, qk \in QueryKeys, qv \in QueryValues, r \in Replies :
        /\ op = "none"
        /\ op' = "GetMany"
        /\ model' = model
        /\ collection' = pms
        /\ queryKey' = qk
        /\ queryValue' = qv
        /\ convLog' = <<>>
        /\ IF ImplementsPGModel(getManyDynamicType)
           THEN /\ calls' = <<Invocation("Query", CollectionDest(pms),
                                         createGetQuery(Bar, qk, qv), <<qv>>, r)>>
                /\ outcome' = "returned"
                /\ ret' = r
           ELSE \* the type assertion .(PGModel) panics
                /\ calls' = <<>>
                /\ outcome' = "panic: interface conversion"
                /\ ret' = NoReply

Save ==
    \E r \in Replies :
        LET pm == model
            e == saveEval(pm)
        IN /\ op = "none"
           /\ op' = "Save"
           /\ model' = pm
           /\ collection' = <<>>
           /\ queryKey' = "none"
           /\ queryValue' = NilV
           /\ convLog' = e.log
           /\ IF e.reached
              THEN /\ calls' = <<Invocation("Query", ModelDest(pm), e.query, e.params, r)>>
                   /\ outcome' = "returned"
                   /\ ret' = r
              ELSE /\ calls' = <<>>
                   /\ outcome' = "panic: " \o e.panic
                   /\ ret' = NoReply

Delete ==
    \E r \in Replies :
      LET pm == model
      IN
        /\ op = "none"
        /\ op' = "Delete"
        /\ model' = pm
        /\ collection' = <<>>
        /\ queryKey' = "none"
        /\ queryValue' = NilV
        /\ convLog' = <<>>
        /\ calls' = <<Invocation("Query", ModelDest(pm), createDeleteQuery(pm), <<pm.pkv>>, r)>>
        /\ outcome' = "returned"
        /\ ret' = r

Next == Get \/ GetMany \/ Save \/ Delete

Spec == Init /\ [][Next]_vars

---------------------------------------------------------------------------
\* Vocabulary of the properties.

\* ColumnCount = len(NonPKColumns)+1 and NonPKValues parallel to NonPKColumns.
WellShaped(pm) == pm.cc = Len(pm.npkc) + 1 /\ Len(pm.npkv) = Len(pm.npkc)

HasNil(pm) == pm.pkv.kind = "nil" \/ \E i \in DOMAIN pm.npkv : pm.npkv[i].kind = "nil"

Count(s, x) == Cardinality({i \in DOMAIN s : s[i] = x})

\* The positions of the "?" placeholders of a template, in order.
PlaceholderPositions(q) == {i \in DOMAIN q : q[i] = "?"}

NthPlaceholder(q, k) ==
    CHOOSE i \in PlaceholderPositions(q) :
        Cardinality({j \in PlaceholderPositions(q) : j <= i}) = k

Position(q, tok) == CHOOSE i \in DOMAIN q : q[i] = tok /\ \A j \in 1..(i - 1) : q[j] # tok

\* The column names of the INSERT column list: the tokens between the first
\* "(" and the first ")" that are not commas.
InsertColumns(q) ==
    LET inside == {i \in DOMAIN q : Position(q, "(") < i /\ i < Position(q, ")") /\ q[i] # ","}
    IN [k \in 1..Cardinality(inside) |->
           q[CHOOSE i \in inside : Cardinality({j \in inside : j <= i}) = k]]

\* The column the k-th placeholder of an upsert template stands for: the k-th
\* insert column for a VALUES placeholder, the column left of "= ?" otherwise.
PlaceholderColumn(q, k) ==
    LET i == NthPlaceholder(q, k)
    IN IF i < Position(q, "ON CONFLICT") THEN InsertColumns(q)[k] ELSE q[i - 2]

\* The record's value in column c.
ColumnValue(pm, c) ==
    IF c = pm.pk THEN pm.pkv
    ELSE pm.npkv[CHOOSE i \in DOMAIN pm.npkc : pm.npkc[i] = c]

\* What the executor must receive for value v of column c.
Expected(pm, v, c) == IF v.kind = "slice" THEN ConvertSlice(pm, c) ELSE v

\* The SET clause of an upsert template has no assignment.
SetClauseEmpty(q) == \E i \in DOMAIN q : q[i] = "SET" /\ i + 1 \in DOMAIN q /\ q[i + 1] = "WHERE"

BarShaped(pm) ==
    /\ pm.pk = "id" /\ pm.sn = "foo" /\ pm.tn = "bars" /\ pm.cc = 3
    /\ pm.npkc = <<"name", "value">> /\ Len(pm.npkv) = 2

---------------------------------------------------------------------------
\* C1: for a well-shaped record, the parameter list Save hands the executor
\* aligns with the upsert template: it has as many entries as the template has
\* "?" placeholders, namely columnCount + (columnCount-1) + 1, the k-th entry
\* is the (marshaled) value of the column the k-th placeholder stands for, and
\* the list is [pk, non-key values, non-key values again, pk].  A well-shaped
\* record without nil values reaches the executor.
C1_SaveParamsAlign ==
    (op = "Save" /\ WellShaped(model)) =>
        /\ \A n \in DOMAIN calls :
             LET q == calls[n].query
                 p == calls[n].params
                 m == Len(model.npkc)
             IN /\ Len(p) = Cardinality(PlaceholderPositions(q))
                /\ Len(p) = model.cc + (model.cc - 1) + 1
                /\ \A k \in DOMAIN p :
                     p[k] = Expected(model, ColumnValue(model, PlaceholderColumn(q, k)),
                                     PlaceholderColumn(q, k))
                /\ PlaceholderColumn(q, 1) = model.pk
                /\ PlaceholderColumn(q, Len(p)) = model.pk
                /\ \A j \in 1..m : /\ PlaceholderColumn(q, 1 + j) = model.npkc[j]
                                   /\ PlaceholderColumn(q, 1 + m + j) = model.npkc[j]
        /\ ~HasNil(model) => Len(calls) = 1

C1_Witness ==
    /\ op = "Save" /\ WellShaped(model) /\ Len(calls) = 1
    /\ Len(model.npkc) = 2
    /\ model.npkv[1].kind = "slice" /\ model.npkv[2].kind = "string"

\* C2 as stated: the Bar-shaped record's upsert has 5 placeholders and 5 parameters.
C2_FivePlaceholders ==
    (op = "Save" /\ BarShaped(model) /\ calls # <<>>) =>
        /\ Cardinality(PlaceholderPositions(calls[1].query)) = 5
        /\ Len(calls[1].params) = 5

\* C2 (amended): for the record with primary key id, non-key columns
\* [name, value], schema foo, table bars, ColumnCount 3 and one value per
\* non-key column, the upsert template has 3+2+1 = 6 placeholders and the
\* parameter list has length 6: [pk, name, value, name, value, pk].
C2_SixPlaceholders ==
    (op = "Save" /\ BarShaped(model) /\ calls # <<>>) =>
        /\ Cardinality(PlaceholderPositions(calls[1].query)) = 6
        /\ Len(calls[1].params) = 6
        /\ LET e(v, c) == Expected(model, v, c)
               pkv == e(model.pkv, "id")
               name == e(model.npkv[1], "name")
               value == e(model.npkv[2], "value")
           IN calls[1].params = <<pkv, name, value, name, value, pkv>>

C2_Witness == op = "Save" /\ model = Bar /\ Len(calls) = 1

\* C3: for a record with ColumnCount 1, Save either fails with a validation
\* error before the executor is called or hands it valid SQL; it never hands
\* the executor a template whose SET clause is empty.
C3_NoEmptySetClause ==
    (op = "Save" /\ model.cc = 1 /\ model.npkc = <<>> /\ model.npkv = <<>> /\ ~HasNil(model)) =>
        /\ outcome = "returned"
        /\ \/ calls = <<>> /\ ret.err = "validation error"
           \/ Len(calls) = 1 /\ ~SetClauseEmpty(calls[1].query)

\* C4: GetMany hands the executor, in multi-row mode, the Get query shape with
\* queryValue as the single parameter and the collection as the destination,
\* or returns a type-mismatch error; it does not abort.
C4_GetManyQueries ==
    (op = "GetMany") =>
        /\ outcome = "returned"
        /\ \/ calls = <<>> /\ ret.err = "type mismatch"
           \/ /\ Len(calls) = 1
              /\ calls[1].mode = "Query"
              /\ calls[1].params = <<queryValue>>
              /\ calls[1].dest.kind = "collection"
              /\ calls[1].dest.coll = collection
              /\ calls[1].query[8] = queryKey

\* C5 as stated: one Save invokes ConvertSlice twice for a slice-typed
\* non-key column, once per occurrence in the parameter list.
C5_ConvertedPerOccurrence ==
    (op = "Save" /\ outcome = "returned") =>
        \A i \in DOMAIN model.npkv :
            model.npkv[i].kind = "slice" => Count(convLog, model.npkc[i]) = 2

\* C5 (amended): a Save that reaches the executor invokes ConvertSlice exactly
\* once for each slice-typed non-key value (and not at all for a column whose
\* value is no slice), and the one string returned is used for both the
\* insert-values and the update-clause occurrence.
C5_ConvertedOncePerValue ==
    (op = "Save" /\ outcome = "returned") =>
        /\ \A i \in DOMAIN model.npkv :
             LET c == model.npkc[i]
                 m == Len(model.npkv)
             IN IF model.npkv[i].kind = "slice"
                THEN /\ Count(convLog, c) = 1
                     /\ calls[1].params[1 + i] = ConvertSlice(model, c)
                     /\ calls[1].params[1 + m + i] = calls[1].params[1 + i]
                ELSE Count(convLog, c) = 0
        /\ Len(convLog) = Cardinality({i \in DOMAIN model.npkv : model.npkv[i].kind = "slice"})
                          + (IF model.pkv.kind = "slice" THEN 1 ELSE 0)

C5_Witness ==
    /\ op = "Save" /\ outcome = "returned"
    /\ \E i \in DOMAIN model.npkv : model.npkv[i].kind = "slice" /\ model.npkc[i] = "values"
    /\ model.Values # <<>>

\* C6: every parameter Save passes for a value v of column c is v itself when
\* v is no slice, and the string ConvertSlice returns for c when v is a slice.
C6_ParamsMarshaled ==
    (op = "Save") =>
        \A n \in DOMAIN calls :
            LET p == calls[n].params
                m == Len(model.npkv)
                same(x, v, c) == IF v.kind = "slice" THEN x = ConvertSlice(model, c) ELSE x = v
            IN /\ Len(p) = 2 * m + 2
               /\ same(p[1], model.pkv, model.pk)
               /\ same(p[2 * m + 2], model.pkv, model.pk)
               /\ \A j \in 1..m : /\ same(p[1 + j], model.npkv[j], model.npkc[j])
                                  /\ same(p[1 + m + j], model.npkv[j], model.npkc[j])

C6_Witness ==
    /\ op = "Save" /\ Len(calls) = 1
    /\ model.pkv.kind = "array"
    /\ \E i, j \in DOMAIN model.npkv :
         /\ model.npkv[i].kind = "slice" /\ model.npkc[i] = "values" /\ model.Values # <<>>
         /\ model.npkv[j].kind = "int"

\* C7: Delete hands the executor DELETE FROM <schema>.<table> WHERE
\* <table>.<pk> = ? (qualified by the table name) with exactly one parameter,
\* the record's primary-key value.
C7_DeleteQuery ==
    (op = "Delete") =>
        /\ Len(calls) = 1
        /\ calls[1].query = <<"DELETE FROM", model.sn, ".", model.tn,
                              "WHERE", model.tn, ".", model.pk, "=", "?">>
        /\ calls[1].params = <<model.pkv>>

C7_Witness == op = "Delete" /\ Len(calls) = 1 /\ model.sn # model.tn /\ model.pkv.kind = "slice"

\* C8: Get hands the executor, in single-row mode, SELECT * FROM
\* <schema>.<table> WHERE <queryKey> = ? with queryKey as given, exactly one
\* parameter, queryValue, and the record as the destination.
C8_GetQuery ==
    (op = "Get") =>
        /\ Len(calls) = 1
        /\ calls[1].mode = "QueryOne"
        /\ calls[1].query = <<"SELECT", "*", "FROM", model.sn, ".", model.tn,
                              "WHERE", queryKey, "=", "?">>
        /\ calls[1].params = <<queryValue>>
        /\ calls[1].dest.kind = "model"
        /\ calls[1].dest.model = model

C8_Witness == op = "Get" /\ Len(calls) = 1 /\ queryKey = "name" /\ queryValue = NilV

\* C9: each call of Get, Save or Delete (on a well-shaped record) invokes the
\* executor exactly once and returns exactly what that invocation returned.
C9_ExactlyOneInvocation ==
    (op \in {"Get", "Save", "Delete"} /\ WellShaped(model)) =>
        /\ Len(calls) = 1
        /\ outcome = "returned"
        /\ ret = calls[1].reply

\* C10: for a well-shaped record, Save reaches the executor without aborting,
\* whatever the values are, a nil primary-key or non-key value included.
C10_SaveNeverAborts ==
    (op = "Save" /\ WellShaped(model)) => (outcome = "returned" /\ Len(calls) = 1)

====
